---- MODULE Spec2Model ----
(***************************************************************************)
(* A state-machine model of src/app.py: the users table, the upload        *)
(* directory, one Flask session per browser, and one action per route      *)
(* handler.                                                                *)
(*                                                                         *)
(* Text is a sequence of one-character strings, so that str.strip,         *)
(* str.rsplit, str.lower, str.split and str.startswith are computed, not   *)
(* assumed.  A Python None / SQL NULL is the empty tuple None and a        *)
(* present value x is the one-element tuple Some(x).                       *)
(***************************************************************************)
EXTENDS Integers, Sequences, FiniteSets, TLC

VARIABLES
    users,            \* the rows of table users (a set of records)
    sqlite_sequence,  \* the AUTOINCREMENT counter of table users
    uploads,          \* UPLOAD_FOLDER: stored file name -> file content
    session,          \* client -> the "username" entry of its Flask session
    last              \* the last request handled and the response it got

vars == <<users, sqlite_sequence, uploads, session, last>>

(***************************************************************************)
(* Text helpers                                                            *)
(***************************************************************************)
None == <<>>
Some(x) == <<x>>

WHITESPACE == {" "}

RECURSIVE lstrip(_)
lstrip(s) ==
    IF s # <<>> /\ Head(s) \in WHITESPACE THEN lstrip(Tail(s)) ELSE s

RECURSIVE rstrip(_)
rstrip(s) ==
    IF s # <<>> /\ s[Len(s)] \in WHITESPACE
    THEN rstrip(SubSeq(s, 1, Len(s) - 1))
    ELSE s

\* str.strip()
strip(s) == rstrip(lstrip(s))

UPPER_TO_LOWER ==
    ("L" :> "l") @@ ("T" :> "t") @@ ("X" :> "x") @@ ("D" :> "d")

\* str.lower()
lower(s) ==
    [i \in 1..Len(s) |->
        IF s[i] \in DOMAIN UPPER_TO_LOWER THEN UPPER_TO_LOWER[s[i]] ELSE s[i]]

\* str.startswith(prefix)
startswith(s, prefix) ==
    Len(s) >= Len(prefix) /\ SubSeq(s, 1, Len(prefix)) = prefix

\* s.rsplit(".", 1)[1]: the text after the last "." (s contains a ".")
rsplit_last(s) ==
    LET dots == {i \in 1..Len(s) : s[i] = "."}
        k == CHOOSE i \in dots : \A j \in dots : j <= i
    IN SubSeq(s, k + 1, Len(s))

\* str.split(): the maximal runs of non-whitespace characters, in order
RECURSIVE split(_)
split(text) ==
    LET t == lstrip(text) IN
    IF t = <<>> THEN <<>>
    ELSE LET ws == {i \in 1..Len(t) : t[i] \in WHITESPACE}
             e == IF ws = {} THEN Len(t) + 1
                  ELSE CHOOSE i \in ws : \A j \in ws : i <= j
         IN <<SubSeq(t, 1, e - 1)>> \o split(SubSeq(t, e, Len(t)))

(***************************************************************************)
(* Credential store: table users (init_db) and its queries                 *)
(***************************************************************************)
\* A string is "truthy" in Python when it is neither None nor empty.
Truthy(o) == o # None /\ o[1] # <<>>

\* o or ""
OrEmpty(o) == IF o = None THEN <<>> ELSE o[1]

\* INSERT INTO users (username, password) VALUES (?, ?): the row the
\* statement builds; id is the AUTOINCREMENT value, every other column NULL.
NewRow(username, hashed) ==
    [id |-> sqlite_sequence + 1, username |-> username, password |-> hashed,
     firstname |-> None, lastname |-> None, email |-> None, address |-> None,
     limerick_filename |-> None]

\* A table without the UNIQUE constraint (what C3 rules out)
UniqueViolation_never(username) == FALSE

\* username TEXT UNIQUE NOT NULL: the constraint the INSERT is checked against
UniqueViolation(username) == \E r \in users : r.username = username

\* The INSERT of register; "error" is sqlite3.IntegrityError, which rolls the
\* statement back.
insert_user(username, hashed) ==
    IF UniqueViolation(username)
    THEN [error |-> TRUE, users |-> users, sqlite_sequence |-> sqlite_sequence]
    ELSE [error |-> FALSE, users |-> users \cup {NewRow(username, hashed)},
          sqlite_sequence |-> sqlite_sequence + 1]

\* SELECT * FROM users WHERE username = ?  ... fetchone()
get_user(username) ==
    LET rows == {r \in users : r.username = username}
    IN IF rows = {} THEN None ELSE Some(CHOOSE r \in rows : TRUE)

\* An UPDATE that lost its WHERE clause (what C10 rules out)
update_every_row(username, firstname, lastname, email, address) ==
    {[r EXCEPT !.firstname = Some(firstname), !.lastname = Some(lastname),
               !.email = Some(email), !.address = Some(address)] : r \in users}

\* UPDATE users SET firstname = ?, lastname = ?, email = ?, address = ?
\* WHERE username = ?
update_user_details(username, firstname, lastname, email, address) ==
    {IF r.username = username
     THEN [r EXCEPT !.firstname = Some(firstname), !.lastname = Some(lastname),
                    !.email = Some(email), !.address = Some(address)]
     ELSE r : r \in users}

\* UPDATE users SET limerick_filename = ? WHERE username = ?
update_user_file(username, filename) ==
    {IF r.username = username
     THEN [r EXCEPT !.limerick_filename = Some(filename)]
     ELSE r : r \in users}

(***************************************************************************)
(* Password verifier (werkzeug.security).  The digest is an opaque         *)
(* injective function of salt and password; the stored text is             *)
(* "scrypt:" + salt + "$" + digest.                                        *)
(***************************************************************************)
SCRYPT == <<"s", "c", "r", "y", "p", "t", ":">>
PBKDF2 == <<"p", "b", "k", "d", "f", "2", ":">>

Digest(salt, password) == salt \o <<"#">> \o password

generate_password_hash(password, salt) ==
    SCRYPT \o salt \o <<"$">> \o Digest(salt, password)

check_password_hash(stored, password) ==
    LET seps == {i \in 1..Len(stored) : stored[i] = "$"} IN
    IF seps = {} THEN FALSE
    ELSE LET k == CHOOSE i \in seps : \A j \in seps : i <= j
             method == IF startswith(stored, SCRYPT) THEN SCRYPT ELSE PBKDF2
             salt == SubSeq(stored, Len(method) + 1, k - 1)
         IN Digest(salt, password) = SubSeq(stored, k + 1, Len(stored))

\* A login that accepts any password (what C2 rules out)
password_valid_always(user, password) == TRUE

\* lines 198-205 of login: hashed rows are verified, others compared as text
password_valid(user, password) ==
    LET stored_password == user.password
        is_hashed == startswith(stored_password, PBKDF2)
                     \/ startswith(stored_password, SCRYPT)
    IN IF is_hashed THEN check_password_hash(stored_password, password)
       ELSE stored_password = password

(***************************************************************************)
(* File intake and word counter                                            *)
(***************************************************************************)
ALLOWED_EXTENSIONS == {<<"t", "x", "t">>}

\* An extension check without .lower() (what C4 rules out)
allowed_file_case_sensitive(filename) ==
    /\ \E i \in 1..Len(filename) : filename[i] = "."
    /\ rsplit_last(filename) \in {<<"t", "x", "t">>}

\* line 76
allowed_file(filename) ==
    /\ \E i \in 1..Len(filename) : filename[i] = "."
    /\ lower(rsplit_last(filename)) \in ALLOWED_EXTENSIONS

LIMERICK_SUFFIX ==
    <<"_", "L", "i", "m", "e", "r", "i", "c", "k", ".", "t", "x", "t">>

\* f"{username}_Limerick.txt"
stored_name(username) == username \o LIMERICK_SUFFIX

SelectSeq2(s, keep) ==
    LET F[i \in 0..Len(s)] ==
            IF i = 0 THEN <<>>
            ELSE IF s[i] \in keep THEN Append(F[i - 1], s[i]) ELSE F[i - 1]
    IN F[Len(s)]

RECURSIVE join_underscore(_)
join_underscore(words) ==
    IF words = <<>> THEN <<>>
    ELSE IF Len(words) = 1 THEN words[1]
    ELSE words[1] \o <<"_">> \o join_underscore(Tail(words))

RECURSIVE strip_dots(_)
strip_dots(s) ==
    IF s # <<>> /\ Head(s) \in {".", "_"} THEN strip_dots(Tail(s))
    ELSE IF s # <<>> /\ s[Len(s)] \in {".", "_"}
    THEN strip_dots(SubSeq(s, 1, Len(s) - 1))
    ELSE s

SAFE_CHARS ==
    {"a", "b", "c", "d", "e", "i", "k", "l", "m", "n", "o", "r", "s", "t", "x",
     "D", "L", "T", "X", "_", ".", "-"}

\* werkzeug.utils.secure_filename: path separators become spaces, whitespace
\* runs become "_", characters outside [A-Za-z0-9_.-] are dropped, and
\* leading and trailing "." and "_" are stripped.  SAFE_CHARS lists the
\* characters of that class that occur in the filenames uploaded here.
secure_filename(filename) ==
    LET spaced == [i \in 1..Len(filename) |->
                      IF filename[i] = "/" THEN " " ELSE filename[i]]
    IN strip_dots(SelectSeq2(join_underscore(split(spaced)), SAFE_CHARS))

\* len([word for word in text.split() if word.strip()])
count_words(text) ==
    LET words == split(text)
    IN Cardinality({i \in 1..Len(words) : strip(words[i]) # <<>>})

\* Path(file_path).exists()
path_exists(name) == \E f \in uploads : f.name = name

\* handle.read() of an existing file
read_file(name) == (CHOOSE f \in uploads : f.name = name).content

\* A save that keeps the previous upload beside the new one (what C5 rules
\* out)
file_save_beside(name, content) ==
    uploads \cup {[name |-> name, content |-> content]}

\* file.save(destination): creates the file or overwrites the one of that name
file_save(name, content) ==
    {f \in uploads : f.name # name} \cup {[name |-> name, content |-> content]}

\* get_word_count(file_path) on directory contents files: None when the path
\* is unset or no such file exists
word_count_in(files, file_path) ==
    IF file_path = None \/ ~(\E f \in files : f.name = file_path[1]) THEN None
    ELSE Some(count_words(
             (CHOOSE f \in files : f.name = file_path[1]).content))

get_word_count(file_path) == word_count_in(uploads, file_path)

(***************************************************************************)
(* Responses.  A response carries the notices (flash) its handler emitted  *)
(* and the template context or the attachment.  Beside it a handler        *)
(* returns the state it leaves and, for the access claims, which rows and  *)
(* files it read.                                                          *)
(***************************************************************************)
render_template(template, ctx, flashes) ==
    [kind |-> "render", target |-> template, arg |-> None, ctx |-> ctx,
     body |-> None, flashes |-> flashes]

\* redirect(url_for(endpoint, username=arg))
redirect(endpoint, arg, flashes) ==
    [kind |-> "redirect", target |-> endpoint, arg |-> arg, ctx |-> None,
     body |-> None, flashes |-> flashes]

\* send_from_directory(UPLOAD_FOLDER, name, as_attachment=True): the file
\* under its stored name, or 404 when the directory holds no such file
\* (a None path raises TypeError: a 500 response)
send_from_directory(path) ==
    IF path = None
    THEN [kind |-> "error500", target |-> "download", arg |-> None,
          ctx |-> None, body |-> None, flashes |-> <<>>]
    ELSE IF path_exists(path[1])
    THEN [kind |-> "attachment", target |-> "download", arg |-> path,
          ctx |-> None, body |-> Some(read_file(path[1])), flashes |-> <<>>]
    ELSE [kind |-> "abort404", target |-> "download", arg |-> path,
          ctx |-> None, body |-> None, flashes |-> <<>>]

NoRead == [rows |-> {}, files |-> {}]
\* the row get_user returned, if any
ReadRow(o) == [rows |-> IF o = None THEN {} ELSE {o[1].username}, files |-> {}]
\* ... and the stored file opened, if the path names one
ReadRowFile(o, path) ==
    [rows |-> ReadRow(o).rows,
     files |-> IF path # None /\ path_exists(path[1]) THEN {path[1]} ELSE {}]

\* What a handler returns: its response, what it read, the state it leaves.
Out(resp, read, sess, rows, seq, files) ==
    [resp |-> resp, read |-> read, session |-> sess, users |-> rows,
     sqlite_sequence |-> seq, uploads |-> files]

\* A handler run that changes nothing
Unchanged(c, resp, read) ==
    Out(resp, read, session[c], users, sqlite_sequence, uploads)

FLASH_LOGIN == <<"error", "Please log in to continue.">>
FLASH_REQUIRED == <<"error", "Username and password are required.">>
FLASH_TAKEN == <<"error", "That username is already taken. Try another.">>
FLASH_CREATED == <<"success", "Account created. Add your details below.">>
FLASH_NO_ACCOUNT == <<"error", "Account not found. Please register again.">>
FLASH_SAVED == <<"success", "Profile details saved.">>
FLASH_BOTH == <<"error", "Both fields are required.">>
\* A notice that tells an unknown username apart (what C7 rules out)
FLASH_UNKNOWN_USER_NAMED == <<"error", "No such user.">>

\* line 195: the notice for an unknown username
FLASH_UNKNOWN_USER == <<"error", "Invalid username or password.">>
\* line 208: the notice for a password that does not verify
FLASH_BAD_PASSWORD == <<"error", "Invalid username or password.">>
FLASH_WELCOME == <<"success", "Welcome back!">>
FLASH_LOGGED_OUT == <<"success", "You are now logged out.">>
FLASH_OWN_PROFILE == <<"error", "You can only access your own profile.">>
FLASH_NO_PROFILE == <<"error", "Profile not found.">>
FLASH_CHOOSE == <<"error", "Please choose a file to upload.">>
FLASH_NO_FILE == <<"error", "No file selected.">>
FLASH_ONLY_TXT == <<"error", "Only .txt files are allowed.">>
FLASH_RECOMMENDED ==
    <<"info", "Uploaded file accepted. For grading, Limerick.txt is recommended.">>
FLASH_UNREADABLE ==
    <<"error", "File uploaded, but word count could not be read.">>
FLASH_UPLOADED(n) == <<"success", "File uploaded. Word count:", n>>
FLASH_OWN_FILE == <<"error", "You can only download your own file.">>
FLASH_NO_DOWNLOAD == <<"error", "No file available to download.">>

(***************************************************************************)
(* Route handlers                                                          *)
(***************************************************************************)
\* require_login(): the session's username, or None with a notice
require_login(c) ==
    IF ~Truthy(session[c])
    THEN [username |-> None, flashes |-> <<FLASH_LOGIN>>]
    ELSE [username |-> session[c], flashes |-> <<>>]

\* A handler without the ownership check (what C1 rules out)
not_owner_never(current_user, username) == FALSE

\* lines 230 and 298: current_user != username
not_owner(current_user, username) == current_user # username

\* A download that does not look at limerick_filename (what C6 rules out)
no_file_unchecked(user) == user = None

\* line 303: not user or not user["limerick_filename"]
no_file(user) == user = None \/ ~Truthy(user[1].limerick_filename)

\* register(): "/" ; salt is the random salt generate_password_hash draws
register(c, method, form, salt) ==
    IF method = "POST" THEN
        LET username == strip(form.username)
            password == strip(form.password)
        IN IF username = <<>> \/ password = <<>>
           THEN Unchanged(c, render_template("register.html", None,
                                             <<FLASH_REQUIRED>>), NoRead)
           ELSE LET hashed == generate_password_hash(password, salt)
                    ins == insert_user(username, hashed)
                IN IF ins.error
                   THEN Unchanged(c, render_template("register.html", None,
                                                     <<FLASH_TAKEN>>), NoRead)
                   ELSE Out(redirect("details", None, <<FLASH_CREATED>>), NoRead,
                            Some(username), ins.users, ins.sqlite_sequence,
                            uploads)
    ELSE Unchanged(c, render_template("register.html", None, <<>>), NoRead)

\* details(): "/details"
details(c, method, form) ==
    LET login_ == require_login(c) IN
    IF login_.username = None
    THEN Unchanged(c, redirect("login", None, login_.flashes), NoRead)
    ELSE
    LET username == login_.username[1]
        user == get_user(username)
    IN IF user = None
       THEN Unchanged(c, redirect("register", None, <<FLASH_NO_ACCOUNT>>),
                      ReadRow(user))
       ELSE IF method = "POST"
       THEN Out(redirect("profile", Some(username), <<FLASH_SAVED>>),
                ReadRow(user), session[c],
                update_user_details(username, strip(form.firstname),
                                    strip(form.lastname), strip(form.email),
                                    strip(form.address)),
                sqlite_sequence, uploads)
       ELSE Unchanged(c, render_template("details.html",
                                         Some([user |-> user[1]]), <<>>),
                      ReadRow(user))

\* login(): "/login"
login(c, method, form) ==
    IF method = "POST" THEN
        LET username == strip(form.username)
            password == strip(form.password)
        IN IF username = <<>> \/ password = <<>>
           THEN Unchanged(c, render_template("login.html", None,
                                             <<FLASH_BOTH>>), NoRead)
           ELSE LET user == get_user(username) IN
                IF user = None
                THEN Unchanged(c, render_template("login.html", None,
                                                  <<FLASH_UNKNOWN_USER>>),
                               ReadRow(user))
                ELSE IF ~password_valid(user[1], password)
                THEN Unchanged(c, render_template("login.html", None,
                                                  <<FLASH_BAD_PASSWORD>>),
                               ReadRow(user))
                ELSE Out(redirect("profile", Some(username), <<FLASH_WELCOME>>),
                         ReadRow(user), Some(username), users, sqlite_sequence,
                         uploads)
    ELSE Unchanged(c, render_template("login.html", None, <<>>), NoRead)

\* A logout that leaves the session bound (what C9 rules out)
logout_keeps_session(c) ==
    Out(redirect("login", None, <<"success", "You are now logged out.">>),
        NoRead, session[c], users, sqlite_sequence, uploads)

\* logout(): "/logout" ; session.clear()
logout(c) ==
    Out(redirect("login", None, <<FLASH_LOGGED_OUT>>), NoRead,
        None, users, sqlite_sequence, uploads)

PROFILE_FIELDS == {"firstname", "lastname", "email", "address"}

\* A count of non-empty fields that does not trim (what C8 rules out)
filled_fields_untrimmed(user) ==
    Cardinality({key \in {"firstname", "lastname", "email", "address"} :
                    OrEmpty(user[key]) # <<>>})

\* lines 276-281 of profile: the fields that are non-empty once trimmed, and
\* int((filled_fields / 4) * 100); the quotients k/4 and their products with
\* 100 are exact in floating point, so this is the integer k*100/4.
filled_fields(user) ==
    Cardinality({key \in PROFILE_FIELDS : strip(OrEmpty(user[key])) # <<>>})

completeness(user) == (filled_fields(user) * 100) \div 4

LIMERICK_TXT == <<"l", "i", "m", "e", "r", "i", "c", "k", ".", "t", "x", "t">>

\* lines 239-268 of profile: the upload; file is None when the request has no
\* "limerick" part, else Some([filename, content])
upload(c, username, user, file) ==
    LET back(flashes) ==
            Unchanged(c, redirect("profile", Some(username), flashes),
                      ReadRow(user))
    IN IF file = None THEN back(<<FLASH_CHOOSE>>)
       ELSE IF file[1].filename = <<>> THEN back(<<FLASH_NO_FILE>>)
       ELSE IF ~allowed_file(file[1].filename) THEN back(<<FLASH_ONLY_TXT>>)
       ELSE
       LET safe_name == secure_filename(file[1].filename)
           name == stored_name(username)
           info == IF lower(safe_name) # LIMERICK_TXT
                   THEN <<FLASH_RECOMMENDED>> ELSE <<>>
           saved == file_save(name, file[1].content)
           word_count == word_count_in(saved, Some(name))
           counted == IF word_count = None THEN FLASH_UNREADABLE
                      ELSE FLASH_UPLOADED(word_count[1])
       IN Out(redirect("profile", Some(username), info \o <<counted>>),
              [rows |-> {username}, files |-> {name}],
              session[c], update_user_file(username, name), sqlite_sequence,
              saved)

\* profile(username): "/profile/<username>"
profile(c, method, username, file) ==
    LET login_ == require_login(c) IN
    IF login_.username = None
    THEN Unchanged(c, redirect("login", None, login_.flashes), NoRead)
    ELSE IF not_owner(login_.username[1], username)
    THEN Unchanged(c, redirect("profile", login_.username,
                               <<FLASH_OWN_PROFILE>>), NoRead)
    ELSE
    LET user == get_user(username) IN
    IF user = None
    THEN Unchanged(c, redirect("register", None, <<FLASH_NO_PROFILE>>),
                   ReadRow(user))
    ELSE IF method = "POST" THEN upload(c, username, user, file)
    ELSE
    LET has_file == Truthy(user[1].limerick_filename)
        file_path == IF has_file THEN user[1].limerick_filename ELSE None
        word_count == get_word_count(file_path)
    IN Unchanged(c,
           render_template("profile.html",
               Some([user |-> user[1], word_count |-> word_count,
                     has_file |-> has_file,
                     completeness |-> completeness(user[1])]), <<>>),
           ReadRowFile(user, file_path))

\* download(username): "/download/<username>"
download(c, username) ==
    LET login_ == require_login(c) IN
    IF login_.username = None
    THEN Unchanged(c, redirect("login", None, login_.flashes), NoRead)
    ELSE IF not_owner(login_.username[1], username)
    THEN Unchanged(c, redirect("profile", login_.username, <<FLASH_OWN_FILE>>),
                   NoRead)
    ELSE
    LET user == get_user(username) IN
    IF no_file(user)
    THEN Unchanged(c, redirect("profile", Some(username),
                               <<FLASH_NO_DOWNLOAD>>), ReadRow(user))
    ELSE Unchanged(c, send_from_directory(user[1].limerick_filename),
                   ReadRowFile(user, user[1].limerick_filename))

(***************************************************************************)
(* The state machine: browsers send requests, each handled whole.  A       *)
(* handler touches the table through single SQL statements, which SQLite   *)
(* serialises, and its session is its own browser's, so the order in which *)
(* whole requests of different browsers are handled covers how their       *)
(* register, login and details POSTs interleave.                           *)
(***************************************************************************)
Clients == {"c1", "c2"}

\* the usernames the requests are about
ALICE == <<"a">>
BOB == <<"b">>
PATH_USERNAMES == {ALICE, BOB}

Request(route, method, path, form) ==
    [route |-> route, method |-> method, path |-> path, form |-> form]

\* A row created out of band by an older version of the schema: a plaintext
\* password and detail columns that were never trimmed.
LEGACY_ROW ==
    [id |-> 1, username |-> BOB, password |-> <<"p">>,
     firstname |-> Some(<<" ">>), lastname |-> Some(<<>>),
     email |-> Some(<<"x">>), address |-> None, limerick_filename |-> None]

\* UPLOAD_FOLDER.mkdir(exist_ok=True); init_db(): the table exists, empty or
\* holding rows of an earlier run; nobody is logged in.
Init ==
    /\ users \in {{}, {LEGACY_ROW}}
    /\ sqlite_sequence = Cardinality(users)
    /\ uploads = {}
    /\ session = [c \in Clients |-> None]
    /\ last = [client |-> "none", req |-> Request("startup", "", None, None),
               resp |-> render_template("", None, <<>>), read |-> NoRead]

\* One request handled: the handler's response and the state it leaves.
Handle(c, req, out) ==
    /\ users' = out.users
    /\ sqlite_sequence' = out.sqlite_sequence
    /\ uploads' = out.uploads
    /\ session' = [session EXCEPT ![c] = out.session]
    /\ last' = [client |-> c, req |-> req, resp |-> out.resp, read |-> out.read]

Credentials(username, password) ==
    Some([username |-> username, password |-> password])

RegisterGet(In) ==
    \E c \in In.clients :
        Handle(c, Request("register", "GET", None, None),
               register(c, "GET", None, <<>>))

RegisterPost(In) ==
    \E c \in In.clients, u \in In.usernames, p \in In.passwords,
       salt \in In.salts :
        Handle(c, Request("register", "POST", None, Credentials(u, p)),
               register(c, "POST", [username |-> u, password |-> p], salt))

LoginGet(In) ==
    \E c \in In.clients :
        Handle(c, Request("login", "GET", None, None), login(c, "GET", None))

LoginPost(In) ==
    \E c \in In.clients, u \in In.usernames, p \in In.passwords :
        Handle(c, Request("login", "POST", None, Credentials(u, p)),
               login(c, "POST", [username |-> u, password |-> p]))

Logout(In) ==
    \E c \in In.clients :
        Handle(c, Request("logout", "GET", None, None), logout(c))

DetailsGet(In) ==
    \E c \in In.clients :
        Handle(c, Request("details", "GET", None, None), details(c, "GET", None))

DetailsPost(In) ==
    \E c \in In.clients, form \in In.forms :
        Handle(c, Request("details", "POST", None, Some(form)),
               details(c, "POST", form))

ProfileGet(In) ==
    \E c \in In.clients, u \in PATH_USERNAMES :
        Handle(c, Request("profile", "GET", Some(u), None),
               profile(c, "GET", u, None))

\* file is None (no "limerick" part) or Some([filename, content])
ProfilePost(In) ==
    \E c \in In.clients, u \in PATH_USERNAMES, file \in In.files :
        Handle(c, Request("profile", "POST", Some(u), file),
               profile(c, "POST", u, file))

Download(In) ==
    \E c \in In.clients, u \in PATH_USERNAMES :
        Handle(c, Request("download", "GET", Some(u), None), download(c, u))

Form(firstname, lastname, email, address) ==
    [firstname |-> firstname, lastname |-> lastname, email |-> email,
     address |-> address]

File(filename, content) == Some([filename |-> filename, content |-> content])

FORM_EMPTY == Form(<<>>, <<>>, <<>>, <<>>)
FORM_EMAIL == Form(<<>>, <<>>, <<"x">>, <<>>)
FORM_SPACES == Form(<<" ">>, <<" ">>, <<" ">>, <<" ">>)
FORM_FULL == Form(<<" ", "x", " ">>, <<"x">>, <<"x">>, <<"x">>)
FORM_THREE == Form(<<"x">>, <<"x">>, <<" ">>, <<"x">>)

NOTES_DOC == <<"n", "o", "t", "e", "s", ".", "d", "o", "c">>
LIMERICK_UPPER == <<"L", "i", "m", "e", "r", "i", "c", "k", ".", "T", "X", "T">>
DOTDOT_LIMERICK == <<".", ".", "/">> \o LIMERICK_TXT

TXT_ONLY == <<"t", "x", "t">>
DOT_TXT == <<".", "t", "x", "t">>
TXT_DOC == <<"a", ".", "t", "x", "t", ".", "d", "o", "c">>

\* the longest text uploaded, in words
MaxWords == 2

\* n words, two blanks between neighbours: "w", "w  w", ...
RECURSIVE Words(_)
Words(n) ==
    IF n = 1 THEN <<"w">> ELSE Words(n - 1) \o <<" ", " ", "w">>

\* the texts uploaded: one to MaxWords words, or blanks only
CONTENTS == {Words(n) : n \in 1..MaxWords} \cup {<<" ", " ", " ">>}

\* the number of blanks typed before a padded username and after a padded
\* password
MaxPad == 1

Blanks(n) == [i \in 1..n |-> " "]

\* Requests that exercise registration and login, from two browsers
AuthInputs ==
    [clients |-> Clients,
     usernames |-> {ALICE, BOB, <<>>, Blanks(MaxPad) \o ALICE},
     passwords |-> {<<"p">>, <<"q">>, Blanks(MaxPad), <<"p">> \o Blanks(MaxPad)},
     salts |-> {<<"1">>},
     forms |-> {FORM_EMAIL},
     files |-> {None}]

\* Requests that exercise the details form and the profile page
ProfileInputs ==
    [clients |-> {"c1"},
     usernames |-> {ALICE, BOB},
     passwords |-> {<<"p">>},
     salts |-> {<<"1">>, <<"2">>},
     forms |-> {FORM_EMPTY, FORM_EMAIL, FORM_SPACES, FORM_FULL, FORM_THREE},
     files |-> {None, File(LIMERICK_TXT, <<"w">>)}]

\* Requests that exercise upload and download
UploadInputs ==
    [clients |-> {"c1"},
     usernames |-> {ALICE, BOB},
     passwords |-> {<<"p">>},
     salts |-> {<<"1">>},
     forms |-> {FORM_EMAIL},
     files |-> {None} \cup {File(f, <<"w">>) :
                    f \in {<<>>, NOTES_DOC, TXT_ONLY, TXT_DOC}}
               \cup {File(f, t) :
                    f \in {LIMERICK_UPPER, DOT_TXT, DOTDOT_LIMERICK},
                    t \in CONTENTS}]

NextWith(In) ==
    \/ RegisterGet(In)
    \/ RegisterPost(In)
    \/ LoginGet(In)
    \/ LoginPost(In)
    \/ Logout(In)
    \/ DetailsGet(In)
    \/ DetailsPost(In)
    \/ ProfileGet(In)
    \/ ProfilePost(In)
    \/ Download(In)

\* Each specification is the whole application, every route included, driven
\* by one of the three sets of requests.
Next == NextWith(AuthInputs)
NextProfile == NextWith(ProfileInputs)
NextUpload == NextWith(UploadInputs)

Spec == Init /\ [][Next]_vars
SpecProfile == Init /\ [][NextProfile]_vars
SpecUpload == Init /\ [][NextUpload]_vars

(***************************************************************************)
(* Claims                                                                  *)
(***************************************************************************)
\* The client and the request of the step being taken
Step(route, method) ==
    last'.req.route = route /\ last'.req.method = method

ErrorNotice(resp) == Len(resp.flashes) = 1 /\ resp.flashes[1][1] = "error"

StoreUnchanged == UNCHANGED <<users, sqlite_sequence, uploads>>

\* the request of the step is for /profile/<u> or /download/<u> and the
\* browser's session is bound to a username other than u
CrossUserStep ==
    /\ last'.req.route \in {"profile", "download"}
    /\ Truthy(session[last'.client])
    /\ session[last'.client][1] # last'.req.path[1]

\* C1: owner-only access.  Every GET or POST to /profile/<u> and every GET to
\* /download/<u> whose session is bound to a username s other than u is
\* answered by a redirect to /profile/<s> carrying one error notice and
\* nothing else (no template context, no attachment); the handler reads no
\* row and no file, and the table, the upload directory and the sessions are
\* left as they were.
C1_OwnerOnly ==
    [][CrossUserStep =>
        /\ last'.resp.kind = "redirect"
        /\ last'.resp.target = "profile"
        /\ last'.resp.arg = session[last'.client]
        /\ ErrorNotice(last'.resp)
        /\ last'.resp.ctx = None /\ last'.resp.body = None
        /\ last'.read = NoRead
        /\ StoreUnchanged
        /\ UNCHANGED session]_vars

\* C1 witness: alice's browser posted an acceptable file to bob's profile,
\* bob having a stored file of his own, and was sent back to /profile/a.
C1_Witness ==
    /\ last.req = Request("profile", "POST", Some(BOB),
                          File(LIMERICK_UPPER, <<"w">>))
    /\ session[last.client] = Some(ALICE)
    /\ \E r \in users : r.username = BOB /\ r.limerick_filename # None
    /\ \E f \in uploads : f.name = stored_name(BOB) /\ f.content # <<"w">>
    /\ last.resp = redirect("profile", Some(ALICE), <<FLASH_OWN_PROFILE>>)

\* The credentials a register or login POST of the step submits
Submitted == last'.req.form[1]

\* what register stores for password p: a hash of the trimmed text
RegisteredWith(row, p) ==
    /\ strip(p) # <<>>
    /\ \E salt \in AuthInputs.salts :
           row.password = generate_password_hash(strip(p), salt)

GENERIC_NOTICE == <<"error", "Invalid username or password.">>

\* the step's login POST succeeded for the browser that sent it
LoginSucceeds(username) ==
    /\ last'.resp = redirect("profile", Some(username), <<FLASH_WELCOME>>)
    /\ session' = [session EXCEPT ![last'.client] = Some(username)]
    /\ StoreUnchanged

\* C2 (as amended): once a register POST has stored a row for (username,
\* password), every later login POST naming that username succeeds when its
\* password equals the registered one after both are trimmed (the session is
\* bound to the trimmed username and the response redirects to its profile),
\* and fails when the trimmed passwords differ: the login form is shown again
\* with one error notice (the generic one unless the password is blank) and
\* the sessions and the store are left unchanged.
C2_RegisterThenLogin ==
    [][Step("login", "POST") =>
        \A r \in users, p \in AuthInputs.passwords :
            (r.username = strip(Submitted.username) /\ RegisteredWith(r, p)) =>
                /\ strip(Submitted.password) = strip(p)
                       => LoginSucceeds(r.username)
                /\ strip(Submitted.password) # strip(p) =>
                       /\ last'.resp.kind = "render"
                       /\ last'.resp.target = "login.html"
                       /\ ErrorNotice(last'.resp)
                       /\ strip(Submitted.password) # <<>>
                              => last'.resp.flashes = <<GENERIC_NOTICE>>
                       /\ UNCHANGED session
                       /\ StoreUnchanged]_vars

\* C2 witness: alice registered with "p"; a login as alice with "q" was
\* refused with the generic notice and left that browser logged out.
C2_Witness ==
    /\ last.req = Request("login", "POST", None, Credentials(ALICE, <<"q">>))
    /\ last.resp = render_template("login.html", None, <<GENERIC_NOTICE>>)
    /\ \E r \in users : r.username = ALICE /\ RegisteredWith(r, <<"p">>)
    /\ session[last.client] = None

\* the previous request was a register POST that created the account
JustRegistered ==
    /\ last.req.route = "register" /\ last.req.method = "POST"
    /\ last.resp = redirect("details", None, <<FLASH_CREATED>>)

\* C2 (as stated): right after a successful register POST with (username,
\* password), a login POST with the same username succeeds if it submits the
\* same password, and with any different password (read as: any different
\* password that is not blank) it is refused with the generic notice and
\* does not bind the session.
C2_AsStated ==
    [][(JustRegistered /\ Step("login", "POST")
        /\ Submitted.username = last.req.form[1].username) =>
            /\ Submitted.password = last.req.form[1].password
                   => LoginSucceeds(strip(Submitted.username))
            /\ (Submitted.password # last.req.form[1].password
                /\ strip(Submitted.password) # <<>>) =>
                   /\ last'.resp =
                          render_template("login.html", None, <<GENERIC_NOTICE>>)
                   /\ UNCHANGED session]_vars

UniqueUsernames ==
    \A r1, r2 \in users : r1.username = r2.username => r1 = r2

\* C3: at most one row exists per username, whatever the order in which the
\* browsers' register POSTs are handled.  A register POST whose (trimmed)
\* username already has a row is answered by the register form with one error
\* notice, the duplicate-username one when the POST got past the
\* required-fields check, inserts no row, leaves every row and the id counter
\* as they were, and leaves every session as it was.
C3_DuplicateUsername ==
    [][/\ UniqueUsernames'
       /\ (Step("register", "POST")
           /\ \E r \in users : r.username = strip(Submitted.username)) =>
              /\ last'.resp.kind = "render"
              /\ last'.resp.target = "register.html"
              /\ ErrorNotice(last'.resp)
              /\ strip(Submitted.password) # <<>>
                     => last'.resp.flashes = <<FLASH_TAKEN>>
              /\ StoreUnchanged
              /\ UNCHANGED session]_vars

\* C3 witness: alice is registered and logged in on the first browser; the
\* second browser's register POST for alice was refused as a duplicate and
\* that browser has no session.
C3_Witness ==
    /\ last.client = "c2"
    /\ last.req = Request("register", "POST", None, Credentials(ALICE, <<"q">>))
    /\ last.resp = render_template("register.html", None, <<FLASH_TAKEN>>)
    /\ \E r \in users : r.username = ALICE /\ RegisteredWith(r, <<"p">>)
    /\ session["c1"] = Some(ALICE)
    /\ session["c2"] = None

\* the step's login POST names a username no row has
UnknownUsername ==
    /\ strip(Submitted.username) # <<>> /\ strip(Submitted.password) # <<>>
    /\ ~\E r \in users : r.username = strip(Submitted.username)

\* the step's login POST names a row and the password does not verify
MismatchedPassword ==
    /\ strip(Submitted.username) # <<>> /\ strip(Submitted.password) # <<>>
    /\ \E r \in users :
           /\ r.username = strip(Submitted.username)
           /\ ~password_valid(r, strip(Submitted.password))

\* C7: a login POST that fails because the username is unknown and one that
\* fails because the password does not verify get the same response, the
\* login form with the one generic notice, independent of the cause and of
\* the state, and both leave the sessions and the store unchanged.
C7_LoginFailuresAlike ==
    [][(Step("login", "POST") /\ (UnknownUsername \/ MismatchedPassword)) =>
          /\ last'.resp =
                 render_template("login.html", None, <<GENERIC_NOTICE>>)
          /\ UNCHANGED session
          /\ StoreUnchanged]_vars

\* C7 witness: a login as alice (registered) with the wrong password was just
\* refused, bob has no row, and a login as bob would get the same response.
C7_Witness ==
    /\ last.req = Request("login", "POST", None, Credentials(ALICE, <<"q">>))
    /\ \E r \in users : r.username = ALICE /\ RegisteredWith(r, <<"p">>)
    /\ ~\E r \in users : r.username = BOB
    /\ login(last.client, "POST", [username |-> BOB, password |-> <<"q">>]).resp
           = last.resp
    /\ last.resp.flashes = <<GENERIC_NOTICE>>

\* the step's request is to a route behind require_login and the browser's
\* session is unbound
GatedStep ==
    /\ last'.req.route \in {"details", "profile", "download"}
    /\ ~Truthy(session[last'.client])

\* the step's register or login POST succeeded
AuthSucceeded ==
    \/ Step("register", "POST")
       /\ last'.resp = redirect("details", None, <<FLASH_CREATED>>)
    \/ Step("login", "POST")
       /\ last'.resp.kind = "redirect" /\ last'.resp.target = "profile"
       /\ last'.resp.flashes = <<FLASH_WELCOME>>

\* the username a successful register or login binds: the submitted one,
\* trimmed or as typed
Bound(trimmed) ==
    IF trimmed THEN strip(Submitted.username) ELSE Submitted.username

\* Session gating, for either reading of the username that gets bound
SessionGating(trimmed) ==
    /\ \A c \in Clients :
           session'[c] # session[c] =>
               /\ last'.client = c
               /\ \/ last'.req.route = "logout" /\ session'[c] = None
                  \/ AuthSucceeded
                     /\ session'[c] = Some(Bound(trimmed))
    /\ AuthSucceeded => session'[last'.client] = Some(Bound(trimmed))
    /\ last'.req.route = "logout" => session'[last'.client] = None
    /\ GatedStep =>
           /\ last'.resp = redirect("login", None, <<FLASH_LOGIN>>)
           /\ last'.read = NoRead
           /\ StoreUnchanged
           /\ UNCHANGED session

\* C9 (as amended): a session becomes bound only by its own browser's
\* successful register or login POST, and then to the submitted username with
\* its surrounding whitespace trimmed; a logout unbinds it whatever the state;
\* and every request to /details, /profile/<u> or /download/<u> made while
\* the session is unbound redirects to the login page, reads no row and no
\* file and changes nothing, from a logout until the next successful login
\* or register.
C9_SessionGating == [][SessionGating(TRUE)]_vars

\* C9 witness: alice is registered, every browser is logged out again, and a
\* GET of /profile/a was just sent to the login page.
C9_Witness ==
    /\ last.req = Request("profile", "GET", Some(ALICE), None)
    /\ last.resp = redirect("login", None, <<FLASH_LOGIN>>)
    /\ \E r \in users : r.username = ALICE /\ RegisteredWith(r, <<"p">>)
    /\ \A c \in Clients : session[c] = None

\* C9 (as stated): ... and then to exactly the submitted username ...
C9_AsStated == [][SessionGating(FALSE)]_vars

\* the step's request is made by the owner of the path: the session is bound
\* to the path's username
OwnerStep(route, method) ==
    /\ Step(route, method)
    /\ session[last'.client] = last'.req.path

\* the uploaded part of the step's upload POST
Part == last'.req.form[1]

\* "{username}_Limerick.txt"
Canonical(username) ==
    username \o <<"_", "L", "i", "m", "e", "r", "i", "c", "k", ".", "t", "x", "t">>

\* the filename contains a "." and what follows its last "." is "txt" in any
\* mix of cases
EndsInTxt(filename) ==
    \E k \in 1..Len(filename) :
        /\ filename[k] = "."
        /\ Len(filename) = k + 3
        /\ filename[k + 1] \in {"t", "T"}
        /\ filename[k + 2] \in {"x", "X"}
        /\ filename[k + 3] \in {"t", "T"}

\* the step's upload is turned down with this notice and nothing changes
Rejected(notice) ==
    /\ last'.resp = redirect("profile", last'.req.path, <<notice>>)
    /\ StoreUnchanged
    /\ UNCHANGED session

\* the rows and files of the step's post-state are those before it, except
\* that the owner's row names the canonical file and that file holds content
Stored(username, content) ==
    /\ uploads' = {f \in uploads : f.name # Canonical(username)}
                  \cup {[name |-> Canonical(username), content |-> content]}
    /\ users' = {IF r.username = username
                 THEN [r EXCEPT !.limerick_filename = Some(Canonical(username))]
                 ELSE r : r \in users}
    /\ sqlite_sequence' = sqlite_sequence
    /\ UNCHANGED session

\* C4: an upload POST by the owner is checked for a missing file part, then
\* an empty filename, then the extension; each check that fails turns the
\* upload down with its own notice, writes nothing and leaves
\* limerick_filename as it was.  A filename passes exactly when it contains a
\* "." and the text after its last "." is "txt" in any case.  Every upload
\* that passes is stored under "{username}_Limerick.txt", whatever it was
\* called, and limerick_filename is set to that name.
C4_UploadValidation ==
    [][OwnerStep("profile", "POST") =>
        IF last'.req.form = None THEN Rejected(FLASH_CHOOSE)
        ELSE IF Part.filename = <<>> THEN Rejected(FLASH_NO_FILE)
        ELSE IF ~EndsInTxt(Part.filename) THEN Rejected(FLASH_ONLY_TXT)
        ELSE /\ Stored(last'.req.path[1], Part.content)
             /\ last'.resp.kind = "redirect"
             /\ last'.resp.target = "profile"
             /\ last'.resp.arg = last'.req.path]_vars

\* C4 witness: alice uploaded Limerick.TXT and it is stored as
\* a_Limerick.txt, which her row names.
C4_Witness ==
    /\ last.req.route = "profile" /\ last.req.method = "POST"
    /\ last.req.path = Some(ALICE) /\ session[last.client] = Some(ALICE)
    /\ last.req.form # None /\ last.req.form[1].filename = LIMERICK_UPPER
    /\ [name |-> Canonical(ALICE), content |-> last.req.form[1].content]
           \in uploads
    /\ \E r \in users :
           r.username = ALICE /\ r.limerick_filename = Some(Canonical(ALICE))

\* the number of maximal runs of non-blank characters of a text
Tokens(text) ==
    Cardinality({i \in 1..Len(text) :
                    /\ text[i] # " "
                    /\ (i = 1 \/ text[i - 1] = " ")})

\* the step's upload POST by the owner is accepted
AcceptedUpload ==
    /\ OwnerStep("profile", "POST")
    /\ last'.req.form # None
    /\ EndsInTxt(Part.filename)

FilesOf(files, username) == {f \in files : f.name = Canonical(username)}

\* C5: an accepted upload leaves exactly one stored file for its user, holding
\* the uploaded content, and reports the token count of that content; every
\* other step, uploads by other users included, leaves the user's file as it
\* was, so the file always holds the most recent accepted upload; the
\* directory never holds a file that is not some user's one canonical file;
\* and the owner's profile GET shows the token count of the content stored.
C5_LatestUploadOnly ==
    [][/\ AcceptedUpload =>
              /\ FilesOf(uploads', last'.req.path[1]) =
                     {[name |-> Canonical(last'.req.path[1]),
                       content |-> Part.content]}
              /\ last'.resp.flashes[Len(last'.resp.flashes)] =
                     <<"success", "File uploaded. Word count:",
                       Tokens(Part.content)>>
       /\ \A u \in PATH_USERNAMES :
              (~AcceptedUpload \/ last'.req.path # Some(u)) =>
                  FilesOf(uploads', u) = FilesOf(uploads, u)
       /\ \A u \in PATH_USERNAMES : Cardinality(FilesOf(uploads', u)) <= 1
       /\ \A f \in uploads' : \E u \in PATH_USERNAMES : f.name = Canonical(u)
       /\ (OwnerStep("profile", "GET")
           /\ FilesOf(uploads, last'.req.path[1]) # {}) =>
              \A f \in FilesOf(uploads, last'.req.path[1]) :
                  /\ last'.resp.kind = "render"
                  /\ last'.resp.ctx[1].word_count = Some(Tokens(f.content))
      ]_vars

\* C5 witness: alice's profile page shows 2 words for her stored "w  w" while
\* bob's stored file holds something else.
C5_Witness ==
    /\ last.req = Request("profile", "GET", Some(ALICE), None)
    /\ last.resp.kind = "render"
    /\ last.resp.ctx[1].word_count = Some(2)
    /\ FilesOf(uploads, ALICE) =
           {[name |-> Canonical(ALICE), content |-> <<"w", " ", " ", "w">>]}
    /\ \E f \in FilesOf(uploads, BOB) : f.content = <<"w">>

\* C6: a download by the logged-in owner whose row names no file redirects to
\* the owner's profile with the "no file available" notice; no attachment is
\* served, no 404 or 500 is returned, no file is read, and the table, the
\* upload directory and the sessions stay as they were.
C6_DownloadBeforeUpload ==
    [][(OwnerStep("download", "GET")
        /\ \E r \in users : /\ r.username = last'.req.path[1]
                            /\ r.limerick_filename = None) =>
          /\ last'.resp =
                 redirect("profile", last'.req.path,
                          <<<<"error", "No file available to download.">>>>)
          /\ last'.read.files = {}
          /\ StoreUnchanged
          /\ UNCHANGED session]_vars

\* C6 witness: alice, who has uploaded nothing, asked for her download and was
\* sent back to her profile, while bob's file sits in the directory.
C6_Witness ==
    /\ last.req = Request("download", "GET", Some(ALICE), None)
    /\ session[last.client] = Some(ALICE)
    /\ \E r \in users : r.username = ALICE /\ r.limerick_filename = None
    /\ last.resp = redirect("profile", Some(ALICE), <<FLASH_NO_DOWNLOAD>>)
    /\ FilesOf(uploads, BOB) # {}

\* a column value that is not NULL and has a non-blank character
NonBlank(value) ==
    value # None /\ \E i \in 1..Len(value[1]) : value[1][i] # " "

NonBlankFields(row) ==
    {key \in {"firstname", "lastname", "email", "address"} : NonBlank(row[key])}

\* C8: the profile page shown to its owner for the owner's current row gives
\* completeness as 25 times the number of the four detail fields that hold a
\* non-blank character: one of 0, 25, 50, 75, 100, with NULL, empty and
\* all-blank fields counting for nothing.
C8_Completeness ==
    (last.req.route = "profile" /\ last.req.method = "GET"
     /\ last.resp.kind = "render") =>
        /\ last.resp.ctx[1].user \in users
        /\ last.resp.ctx[1].user.username = last.req.path[1]
        /\ last.resp.ctx[1].completeness =
               25 * Cardinality(NonBlankFields(last.resp.ctx[1].user))
        /\ last.resp.ctx[1].completeness \in {0, 25, 50, 75, 100}

\* C8 witness: the profile page of the out-of-band row, whose firstname is a
\* blank, lastname empty, address NULL and email set, shows 25.
C8_Witness ==
    /\ last.req = Request("profile", "GET", Some(BOB), None)
    /\ last.resp.kind = "render"
    /\ last.resp.ctx[1].user = LEGACY_ROW
    /\ last.resp.ctx[1].completeness = 25

\* the step's details POST is made with a bound session
DetailsStep ==
    Step("details", "POST") /\ Truthy(session[last'.client])

\* row r as the step's details POST leaves it
Detailed(r) ==
    [r EXCEPT !.firstname = Some(strip(Submitted.firstname)),
              !.lastname = Some(strip(Submitted.lastname)),
              !.email = Some(strip(Submitted.email)),
              !.address = Some(strip(Submitted.address))]

\* C10: every step keeps every row: each row of the table is still there with
\* its id, username and password, and with its limerick_filename unless that
\* was unset; a row differs after the step only if the requesting session is
\* bound to its username, and then either by a details POST, which sets
\* exactly the four detail fields to the trimmed submitted values, or by an
\* accepted upload, which sets only limerick_filename; a details POST does
\* change its user's row that way; and a row is new only if a register POST
\* made it, for the username the session is then bound to.
C10_RowOwnership ==
    [][/\ \A r \in users :
              \/ r \in users'
              \/ /\ session[last'.client] = Some(r.username)
                 /\ \/ DetailsStep /\ Detailed(r) \in users'
                    \/ /\ AcceptedUpload
                       /\ [r EXCEPT !.limerick_filename =
                                        Some(Canonical(r.username))] \in users'
       /\ Cardinality(users') =
              Cardinality(users) + (sqlite_sequence' - sqlite_sequence)
       /\ DetailsStep =>
              \A r \in users :
                  session[last'.client] = Some(r.username)
                      => Detailed(r) \in users'
       /\ \A r \in users' :
              (~\E old \in users : old.id = r.id) =>
                  /\ Step("register", "POST")
                  /\ r.username = strip(Submitted.username)
                  /\ session'[last'.client] = Some(r.username)
                  /\ users' = users \cup {r}
      ]_vars

\* C10 witness: alice's details POST stored the trimmed values in her row
\* while bob's row, with other details and an uploaded file, is in the table.
C10_Witness ==
    /\ last.req = Request("details", "POST", None, Some(FORM_FULL))
    /\ session[last.client] = Some(ALICE)
    /\ \E r \in users :
           /\ r.username = ALICE
           /\ r.firstname = Some(<<"x">>) /\ r.address = Some(<<"x">>)
    /\ \E r \in users :
           /\ r.username = BOB
           /\ r.email = Some(<<"x">>) /\ r.firstname # Some(<<"x">>)
           /\ r.limerick_filename # None

====
